---- MODULE Spec2Model ----
(***************************************************************************)
(* Model of the webhook catcher worker (src/src/index.ts): ingestion of    *)
(* flat JSON payloads into a key-value store, paginated listing and        *)
(* bounded batch deletion.                                                 *)
(*                                                                         *)
(* Strings are sequences of one-character strings, so that concatenation,  *)
(* trimming, indexOf and lexicographic order are computed, not assumed.    *)
(* A nullable string is the empty tuple (null) or a 1-tuple <<s>>.         *)
(***************************************************************************)
EXTENDS Integers, Sequences, FiniteSets, TLC

\* ------------------------------------------------------------------ bounds

\* The clock takes the ticks 0..MaxTick.
MaxTick == 1
\* Number of keys the store holds at most.
MaxStored == 2

\* --------------------------------------------------------------- strings

None == << >>
Some(s) == << s >>

\* The characters used, in ascending code-unit order.
Alphabet ==
  << " ", ",", "-", ".", "0", "1", "2", "3", ":", "E", "K", "N", "O", "Y", "Z",
     "_", "d", "o", "x", "y", "z" >>

CodeTable == [c \in { Alphabet[i] : i \in 1..Len(Alphabet) } |->
                CHOOSE i \in 1..Len(Alphabet) : Alphabet[i] = c]

Code(c) == CodeTable[c]

RECURSIVE LexLess(_, _)
\* s < t in the store's lexicographic key order.
LexLess(s, t) ==
  IF t = << >> THEN FALSE
  ELSE IF s = << >> THEN TRUE
  ELSE IF Head(s) = Head(t) THEN LexLess(Tail(s), Tail(t))
  ELSE Code(Head(s)) < Code(Head(t))

RECURSIVE TrimStart(_)
TrimStart(s) ==
  IF s # << >> /\ Head(s) = " " THEN TrimStart(Tail(s)) ELSE s

RECURSIVE TrimEnd(_)
TrimEnd(s) ==
  IF s # << >> /\ s[Len(s)] = " " THEN TrimEnd(SubSeq(s, 1, Len(s) - 1)) ELSE s

\* String.prototype.trim
Trim(s) == TrimEnd(TrimStart(s))

RECURSIVE IndexOf(_, _, _)
\* 1-based position of the first c in s at or after position i; 0 when none
\* (String.prototype.indexOf returning -1).
IndexOf(s, c, i) ==
  IF i > Len(s) THEN 0
  ELSE IF s[i] = c THEN i
  ELSE IndexOf(s, c, i + 1)

RECURSIVE Split(_, _)
\* String.prototype.split on a one-character separator.
Split(s, c) ==
  LET i == IndexOf(s, c, 1)
  IN IF i = 0 THEN << s >>
     ELSE << SubSeq(s, 1, i - 1) >> \o Split(SubSeq(s, i + 1, Len(s)), c)

RECURSIVE ReplaceChars(_, _, _)
\* String.prototype.replace(/[<from>]/g, to)
ReplaceChars(s, from, to) ==
  IF s = << >> THEN << >>
  ELSE << IF Head(s) \in from THEN to ELSE Head(s) >>
       \o ReplaceChars(Tail(s), from, to)

Range(f) == { f[i] : i \in DOMAIN f }

Min(a, b) == IF a < b THEN a ELSE b
Max(a, b) == IF a > b THEN a ELSE b

NO_KEY == << "N", "O", "-", "K", "E", "Y" >>

\* ------------------------------------------------------------ JSON values

\* A JSON text of a value is a token; request.json() and KV get(.., "json")
\* parse tokens into JavaScript values [type |-> typeof, val |-> ...], and
\* JSON.stringify writes JavaScript values back as tokens.
ScalarTokens == { "null", "true", "\"x\"", "1", "1e400" }
NestedTokens == { "{\"c\":1}", "[1]" }

\* JSON.parse of one value. A number literal beyond the double range parses
\* to Infinity.
JsonParseValue(tok) ==
  CASE tok = "null" -> [type |-> "object", val |-> "null"]
    [] tok = "true" -> [type |-> "boolean", val |-> "true"]
    [] tok = "\"x\"" -> [type |-> "string", val |-> "x"]
    [] tok = "1" -> [type |-> "number", val |-> "1"]
    [] tok = "1e400" -> [type |-> "number", val |-> "Infinity"]
    [] tok = "{\"c\":1}" -> [type |-> "object", val |-> "{c:1}"]
    [] tok = "[1]" -> [type |-> "object", val |-> "[1]"]

\* JSON.stringify of one value. A non-finite number is written as null.
JsonStringifyValue(v) ==
  CASE v.type = "object" /\ v.val = "null" -> "null"
    [] v.type = "boolean" -> "true"
    [] v.type = "string" -> "\"x\""
    [] v.type = "number" /\ v.val = "Infinity" -> "null"
    [] v.type = "number" -> "1"
    [] v.type = "object" /\ v.val = "{c:1}" -> "{\"c\":1}"
    [] v.type = "object" /\ v.val = "[1]" -> "[1]"

\* A request body on the wire: kind "invalid" is text that is not JSON,
\* "scalar" a top-level scalar or null (tok), "array" a top-level array,
\* "object" a JSON object with the property tokens props.
WireBody(kind, tok, props) == [kind |-> kind, tok |-> tok, props |-> props]

NoProps == [p \in {} |-> "null"]

AllScalars(p) ==
  CASE p = "a" -> "\"x\"" [] p = "b" -> "null" [] p = "c" -> "1" [] p = "d" -> "true"

FlatBodies ==
  { WireBody("object", "{}", [p \in {"a", "b", "c", "d"} |-> AllScalars(p)]),
    WireBody("object", "{}", [p \in {"a"} |-> "1e400"]) }

NestedBodies ==
  { WireBody("object", "{}", [p \in {"a"} |-> "{\"c\":1}"]),
    WireBody("object", "{}", [p \in {"a", "b"} |-> IF p = "a" THEN "\"x\"" ELSE "[1]"]) }

NonObjectBodies ==
  { WireBody("scalar", "null", NoProps),
    WireBody("scalar", "\"x\"", NoProps),
    WireBody("array", "[]", NoProps),
    WireBody("array", "[[1]]", NoProps),
    WireBody("array", "[{\"c\":1}]", NoProps) }

InvalidBodies == { WireBody("invalid", "{", NoProps) }

Bodies == FlatBodies \cup NestedBodies \cup NonObjectBodies \cup InvalidBodies

\* request.json(): the parsed top-level value, [type |-> typeof body,
\* val |-> "null" | "array" | "object" | the scalar, props |-> the parsed
\* property values]. Defined for bodies that are JSON.
RequestJson(wire) ==
  CASE wire.kind = "scalar" ->
         [type |-> JsonParseValue(wire.tok).type,
          val |-> JsonParseValue(wire.tok).val, props |-> NoProps]
    [] wire.kind = "array" -> [type |-> "object", val |-> "array", props |-> NoProps]
    [] wire.kind = "object" ->
         [type |-> "object", val |-> "object",
          props |-> [p \in DOMAIN wire.props |-> JsonParseValue(wire.props[p])]]

\* index.ts:174  typeof body !== "object" || body === null || Array.isArray(body)
IsNotObject(body) ==
  body.type # "object" \/ body.val = "null" \/ body.val = "array"

\* Faulty variant: typeof value === "object" without the null exclusion.
isFlatKeyValueObjectNoNullCheck(obj) ==
  \A key \in DOMAIN obj.props : ~(obj.props[key].type = "object")

\* Faulty variant: only Array.isArray(value) is refused.
isFlatKeyValueObjectArraysOnly(obj) ==
  \A key \in DOMAIN obj.props : ~(obj.props[key].val = "[1]")

isFlatKeyValueObject(obj) ==
  \A key \in DOMAIN obj.props :
     LET value == obj.props[key]
         isObject == value.type = "object" /\ value.val # "null"
     IN ~isObject

\* JSON.stringify of the body of an EventRecord.
JsonStringifyBody(body) == [p \in DOMAIN body.props |-> JsonStringifyValue(body.props[p])]

\* JSON.parse of a stored body.
JsonParseBody(props) == [p \in DOMAIN props |-> JsonParseValue(props[p])]

\* ------------------------------------------------------ configuration

NsD == << "d" >>

\* Env: the bindings read by the handlers (index.ts:1-8).
Envs ==
  { [ALLOWED_API_KEYS |-> None, RETENTION_DAYS |-> None],
    [ALLOWED_API_KEYS |-> Some(<< " ", "d", ",", " " >>), RETENTION_DAYS |-> Some(<< "0" >>)] }

VARIABLES
  env,     \* the configuration, fixed at start
  now,     \* the clock tick read by new Date()
  store,   \* env.WEBHOOKS: storage key -> entry written by put
  resp,    \* the response most recently returned by a handler
  del,     \* the batch delete whose store calls were issued last
  lst,     \* the list request whose store calls were issued last
  scan,    \* the namespace discovery under way or last answered
  bulk     \* the number of further events stored under the namespace "z"

\* ---------------------------------------------------------- key codec

TickChars == << "0", "1", "2", "3" >>

\* new Date().toISOString() at tick t, abbreviated to "0:0.<t>Z".
ToISOString(t) == << "0", ":", "0", ".", TickChars[t + 1], "Z" >>

\* Math.random().toString(36).slice(2, 10), abbreviated to one character.
Rands == { << "x" >>, << "y" >> }

\* Faulty variant: the random suffix comes first.
generateEventIdRandFirst(t, rand) ==
  LET nowStr == ReplaceChars(ToISOString(t), { ":", "." }, "-")
  IN rand \o << "_" >> \o nowStr

generateEventId(t, rand) ==
  LET nowStr == ReplaceChars(ToISOString(t), { ":", "." }, "-")
  IN nowStr \o << "_" >> \o rand

makeStorageKey(apiKey, id) == apiKey \o << ":" >> \o id

\* ------------------------------------------------------- request parsing

\* Faulty variant: only the header "key" is read.
readApiKeyHeaderOnly(request) ==
  IF request.key # None /\ request.key[1] # << >> THEN request.key ELSE None

\* readApiKey: header "key", then query api_key, then header x-api-key;
\* a value counts when it is a non-empty string.
readApiKey(request) ==
  IF request.key # None /\ request.key[1] # << >> THEN request.key
  ELSE IF request.api_key # None /\ request.api_key[1] # << >> THEN request.api_key
  ELSE IF request.x_api_key # None /\ request.x_api_key[1] # << >> THEN request.x_api_key
  ELSE None

\* Faulty variant: the value is not trimmed.
toEffectiveKeyNoTrim(maybe) ==
  LET value == IF maybe = None THEN << >> ELSE maybe[1]
  IN IF Len(value) > 0 THEN value ELSE NO_KEY

toEffectiveKey(maybe) ==
  LET trimmed == Trim(IF maybe = None THEN << >> ELSE maybe[1])
  IN IF Len(trimmed) > 0 THEN trimmed ELSE NO_KEY

\* Faulty variant: the entries of the allowlist are not trimmed.
isApiKeyAllowedNoTrim(apiKey, e) ==
  LET allowlistRaw == IF e.ALLOWED_API_KEYS = None THEN << >> ELSE e.ALLOWED_API_KEYS[1]
      parts == Split(allowlistRaw, ",")
      allowlist == { parts[i] : i \in DOMAIN parts } \ { << >> }
  IN IF allowlist = {} THEN TRUE ELSE apiKey \in allowlist

\* Faulty variant: the gate is open whatever the allowlist.
isApiKeyAllowedOpen(apiKey, e) == TRUE

isApiKeyAllowed(apiKey, e) ==
  LET allowlistRaw == IF e.ALLOWED_API_KEYS = None THEN << >> ELSE e.ALLOWED_API_KEYS[1]
      parts == Split(allowlistRaw, ",")
      allowlist == { Trim(parts[i]) : i \in DOMAIN parts } \ { << >> }
  IN IF allowlist = {} THEN TRUE ELSE apiKey \in allowlist

DigitValue(c) == CASE c = "0" -> 0 [] c = "1" -> 1 [] c = "2" -> 2 [] c = "3" -> 3

RECURSIVE NumberOfDigits(_, _)
NumberOfDigits(s, acc) ==
  IF s = << >> THEN acc
  ELSE NumberOfDigits(Tail(s), 10 * acc + DigitValue(Head(s)))

\* Number(s) for the strings used here: white space around an optional "-"
\* and decimal digits (the empty numeral is 0), or no numeral at all (NaN).
NumberOf(s) ==
  LET t == Trim(s)
      negative == t # << >> /\ Head(t) = "-"
      digits == IF negative THEN Tail(t) ELSE t
  IN IF (negative /\ digits = << >>) \/ \E i \in DOMAIN digits : digits[i] \notin { "0", "1", "2", "3" }
     THEN [nan |-> TRUE, n |-> 0]
     ELSE [nan |-> FALSE,
           n |-> IF negative THEN 0 - NumberOfDigits(digits, 0) ELSE NumberOfDigits(digits, 0)]

RECURSIVE PowerOfTen(_)
PowerOfTen(k) == IF k = 0 THEN 1 ELSE 10 * PowerOfTen(k - 1)

\* Number(s) for a decimal numeral with an optional "-" and an optional
\* fraction, as the quotient num / den; NaN for any other string.
DecimalOf(s) ==
  LET t == Trim(s)
      negative == t # << >> /\ Head(t) = "-"
      numeral == IF negative THEN Tail(t) ELSE t
      dot == IndexOf(numeral, ".", 1)
      whole == IF dot = 0 THEN numeral ELSE SubSeq(numeral, 1, dot - 1)
      fraction == IF dot = 0 THEN << >> ELSE SubSeq(numeral, dot + 1, Len(numeral))
      digits == whole \o fraction
  IN IF \/ (negative \/ dot # 0) /\ digits = << >>
        \/ \E i \in DOMAIN digits : digits[i] \notin { "0", "1", "2", "3" }
     THEN [nan |-> TRUE, num |-> 0, den |-> 1]
     ELSE [nan |-> FALSE,
           num |-> IF negative THEN 0 - NumberOfDigits(digits, 0) ELSE NumberOfDigits(digits, 0),
           den |-> PowerOfTen(Len(fraction))]

\* index.ts:97-102. A quotient is finite; Math.floor of days * 86400 is the
\* integer quotient.
getRetentionTtlSeconds(e) ==
  LET daysRaw == Trim(IF e.RETENTION_DAYS = None THEN << "3", "0" >> ELSE e.RETENTION_DAYS[1])
      days == DecimalOf(daysRaw)
  IN IF days.nan \/ days.num <= 0 THEN None ELSE Some((days.num * 24 * 60 * 60) \div days.den)

NoKeySource == [key |-> None, api_key |-> None, x_api_key |-> None]
DKeySource == [key |-> Some(NsD), api_key |-> None, x_api_key |-> None]

TrimmedKeySource == [key |-> Some(<< >>), api_key |-> Some(<< " ", "d" >>), x_api_key |-> None]

KeySources == { NoKeySource, DKeySource, TrimmedKeySource }

\* The ingest requests: every key source with every flat body, the bodies
\* that are refused sent with a key, and one of them sent without a key.
WebhookRequests ==
  { [src |-> k, body |-> b] : k \in KeySources, b \in FlatBodies }
  \cup { [src |-> DKeySource, body |-> b] : b \in Bodies \ FlatBodies }
  \cup { [src |-> NoKeySource, body |-> b] : b \in InvalidBodies }

\* ------------------------------------------------------------- responses

Response(op, status, json) == [op |-> op, status |-> status, json |-> json]

ErrForbidden == "Forbidden api_key"
ErrInvalidJson == "Invalid JSON"
ErrNotObject == "Body must be a flat JSON object of key-value pairs"
ErrNested == "Body must be flat (no nested objects/arrays); only key-value pairs"
ErrStore == "KV failure"

\* ------------------------------------------------------------- ingestion

\* handleWebhook. Math.random() draws rand; the put either takes effect or is
\* rejected by the store, and then the handler throws (index.ts:80-83 has no
\* catch) and the runtime answers 500.
handleWebhook(request) ==
  LET apiKey == toEffectiveKey(readApiKey(request.src))
  IN IF ~isApiKeyAllowed(apiKey, env)
     THEN /\ resp' = Response("webhook", 403, [error |-> ErrForbidden])
          /\ UNCHANGED << env, now, store, del, lst, scan, bulk >>
     ELSE IF request.body.kind = "invalid"
     THEN /\ resp' = Response("webhook", 400, [error |-> ErrInvalidJson])
          /\ UNCHANGED << env, now, store, del, lst, scan, bulk >>
     ELSE LET body == RequestJson(request.body)
          IN IF IsNotObject(body)
             THEN /\ resp' = Response("webhook", 400, [error |-> ErrNotObject])
                  /\ UNCHANGED << env, now, store, del, lst, scan, bulk >>
             ELSE IF ~isFlatKeyValueObject(body)
             THEN /\ resp' = Response("webhook", 400, [error |-> ErrNested])
                  /\ UNCHANGED << env, now, store, del, lst, scan, bulk >>
             ELSE LET ttlSeconds == getRetentionTtlSeconds(env)
                      receivedAt == ToISOString(now)
                  IN \E rand \in Rands :
                     LET eventRecord == [id |-> generateEventId(now, rand),
                                         apiKey |-> apiKey,
                                         receivedAt |-> receivedAt,
                                         body |-> body]
                         storageKey == makeStorageKey(apiKey, eventRecord.id)
                         entry == [value |-> [id |-> eventRecord.id,
                                              apiKey |-> eventRecord.apiKey,
                                              receivedAt |-> eventRecord.receivedAt,
                                              body |-> JsonStringifyBody(eventRecord.body)],
                                   expirationTtl |-> ttlSeconds,
                                   metadata |-> [apiKey |-> apiKey,
                                                 receivedAt |-> eventRecord.receivedAt]]
                     IN /\ Cardinality(DOMAIN store \cup { storageKey }) <= MaxStored
                        /\ \/ /\ store' = [k \in DOMAIN store \cup { storageKey } |->
                                             IF k = storageKey THEN entry ELSE store[k]]
                              /\ resp' = Response("webhook", 200,
                                                  [ok |-> TRUE, id |-> eventRecord.id])
                           \/ /\ store' = store
                              /\ resp' = Response("webhook", 500, [error |-> ErrStore])
                        /\ UNCHANGED << env, now, del, lst, scan, bulk >>

Webhook == \E request \in WebhookRequests : handleWebhook(request)

\* ---------------------------------------------------------- batch delete

\* index.ts:336  ids.slice(0, 500)
MaxDeleteIds == 500

\* An ids array is written run-length: n copies of pad followed by tail.
IdList(pad, n, tail) == [pad |-> pad, n |-> n, tail |-> tail]

\* ids.length
IdsLength(ids) == ids.n + Len(ids.tail)

\* Faulty variant: no guardrail, every id is kept.
IdsSliceAll(ids, m) == ids

\* ids.slice(0, m)
IdsSlice(ids, m) ==
  IF ids.n >= m
  THEN IdList(ids.pad, m, << >>)
  ELSE IdList(ids.pad, ids.n, SubSeq(ids.tail, 1, Min(Len(ids.tail), m - ids.n)))

\* ids.map(f) for f = makeStorageKey(apiKey, _)
IdsToKeys(apiKey, ids) ==
  IdList(makeStorageKey(apiKey, ids.pad), ids.n,
         [i \in DOMAIN ids.tail |-> makeStorageKey(apiKey, ids.tail[i])])

\* The distinct elements of the array.
IdsElements(ids) == (IF ids.n > 0 THEN { ids.pad } ELSE {}) \cup Range(ids.tail)

\* The number of positions of the array holding x.
IdsCount(ids, x) ==
  (IF ids.pad = x THEN ids.n ELSE 0)
  + Cardinality({ i \in DOMAIN ids.tail : ids.tail[i] = x })

\* The element at position i (1-based).
IdsAt(ids, i) == IF i <= ids.n THEN ids.pad ELSE ids.tail[i - ids.n]

NoIds == IdList(<< >>, 0, << >>)

NoDelete ==
  [apiKey |-> << >>, ids |-> NoIds, keysToDelete |-> NoIds,
   outcome |-> [k \in {} |-> "pending"], rejected |-> FALSE]

\* The keys of the batch whose delete calls have not settled.
PendingKeys(d) == { k \in DOMAIN d.outcome : d.outcome[k] = "pending" }

ErrUnauthorized == "Unauthorized"
ErrBodyMustBeJson == "Body must be JSON"
ErrIdsEmpty == "ids must be a non-empty array"

\* Faulty variant: Promise.allSettled, the failures are swallowed.
DeleteResponseAllSettled(anyRejected, keysToDelete) ==
  Response("delete", 200, [ok |-> TRUE, deleted |-> IdsLength(keysToDelete)])

\* Faulty variant: the count of distinct keys is reported.
DeleteResponseDistinct(anyRejected, keysToDelete) ==
  IF anyRejected
  THEN Response("delete", 500, [error |-> ErrStore])
  ELSE Response("delete", 200,
                [ok |-> TRUE, deleted |-> Cardinality(IdsElements(keysToDelete))])

\* index.ts:62-69 and 339-340: what the DELETE request answers once
\* Promise.all settles: it rejects with the first delete that fails (the
\* catch answers 500), and fulfils when every delete has succeeded.
DeleteResponse(anyRejected, keysToDelete) ==
  IF anyRejected
  THEN Response("delete", 500, [error |-> ErrStore])
  ELSE Response("delete", 200, [ok |-> TRUE, deleted |-> IdsLength(keysToDelete)])

\* Faulty variant: only the first key is deleted.
IssuedKeysFirstOnly(apiKey, ids) ==
  IdsSlice(IdsToKeys(apiKey, IdsSlice(ids, MaxDeleteIds)), 1)

\* index.ts:336-337  limited = ids.slice(0, 500); keysToDelete = limited.map(..)
KeysToDelete(apiKey, ids) == IdsToKeys(apiKey, IdsSlice(ids, MaxDeleteIds))

\* handleDeleteEvents up to the await of Promise.all: the request is refused,
\* or one delete call per key of keysToDelete is issued, all at once.
\* request.payload.kind is "invalid" (not JSON), "other" (a JSON value that
\* is falsy or no object) or "object" with key and ids.
DeleteStart(request) ==
  /\ PendingKeys(del) = {}
  /\ IF ~request.authorized
     THEN /\ resp' = Response("delete", 401, [error |-> ErrUnauthorized])
          /\ UNCHANGED << env, now, store, del, lst, scan, bulk >>
     ELSE IF request.payload.kind = "invalid"
     THEN /\ resp' = Response("delete", 400, [error |-> ErrInvalidJson])
          /\ UNCHANGED << env, now, store, del, lst, scan, bulk >>
     ELSE IF request.payload.kind = "other"
     THEN /\ resp' = Response("delete", 400, [error |-> ErrBodyMustBeJson])
          /\ UNCHANGED << env, now, store, del, lst, scan, bulk >>
     ELSE LET apiKey == toEffectiveKey(request.payload.key)
              ids == request.payload.ids
          IN IF ~isApiKeyAllowed(apiKey, env)
             THEN /\ resp' = Response("delete", 403, [error |-> ErrForbidden])
                  /\ UNCHANGED << env, now, store, del, lst, scan, bulk >>
             ELSE IF ids.kind # "array" \/ IdsLength(ids.list) = 0
             THEN /\ resp' = Response("delete", 400, [error |-> ErrIdsEmpty])
                  /\ UNCHANGED << env, now, store, del, lst, scan, bulk >>
             ELSE LET keysToDelete == KeysToDelete(apiKey, ids.list)
                  IN /\ del' = [apiKey |-> apiKey, ids |-> ids.list,
                                keysToDelete |-> keysToDelete,
                                outcome |-> [k \in IdsElements(keysToDelete) |-> "pending"],
                                rejected |-> FALSE]
                     /\ UNCHANGED << env, now, store, resp, lst, scan, bulk >>

\* The delete calls issued for key k succeed: the key is removed if present.
\* (The calls on one key are settled together: they are idempotent.)
\* When these were the last calls and none has failed, Promise.all fulfils.
DeleteCallOk(k) ==
  /\ k \in PendingKeys(del)
  /\ store' = [j \in DOMAIN store \ { k } |-> store[j]]
  /\ del' = [del EXCEPT !.outcome[k] = "ok"]
  /\ resp' = IF PendingKeys(del) = { k } /\ ~del.rejected
             THEN DeleteResponse(FALSE, del.keysToDelete)
             ELSE resp
  /\ UNCHANGED << env, now, lst, scan, bulk >>

\* A delete call issued for key k is failed by the store. With several calls
\* on k (ids repeat) another of them may have removed the key (removed).
\* The first failure of the batch rejects Promise.all.
DeleteCallFail(k, removed) ==
  /\ k \in PendingKeys(del)
  /\ removed => IdsCount(del.keysToDelete, k) > 1
  /\ store' = IF removed THEN [j \in DOMAIN store \ { k } |-> store[j]] ELSE store
  /\ del' = [del EXCEPT !.outcome[k] = "failed", !.rejected = TRUE]
  /\ resp' = IF ~del.rejected THEN DeleteResponse(TRUE, del.keysToDelete) ELSE resp
  /\ UNCHANGED << env, now, lst, scan, bulk >>

\* ------------------------------------------------------------ store reads

\* env.WEBHOOKS.get(key, "json") on the store st: None when the key is
\* absent, else the parsed EventRecord.
KvGetJson(st, key) ==
  IF key \in DOMAIN st
  THEN Some([id |-> st[key].value.id,
             apiKey |-> st[key].value.apiKey,
             receivedAt |-> st[key].value.receivedAt,
             body |-> JsonParseBody(st[key].value.body)])
  ELSE None

\* ---------------------------------------------------------------- listing

\* index.ts:251  Number(limitParam) || 50
DefaultLimit == 50
\* index.ts:251  Math.max(.., 1)
MinLimit == 1
\* index.ts:251  Math.min(.., 200)
MaxLimit == 200
\* index.ts:271  Math.min(1000, limit)
KvListMax == 1000

\* Faulty variant: the limit asked for is not clamped.
LimitOfUnclamped(limitParam) ==
  LET num == NumberOf(IF limitParam = None THEN << >> ELSE limitParam[1])
  IN IF num.nan \/ num.n = 0 THEN DefaultLimit ELSE num.n

\* index.ts:251. Number(null) and Number("") are 0, which || replaces by 50,
\* as it does NaN.
LimitOf(limitParam) ==
  LET num == NumberOf(IF limitParam = None THEN << >> ELSE limitParam[1])
      orDefault == IF num.nan \/ num.n = 0 THEN DefaultLimit ELSE num.n
  IN Min(Max(orDefault, MinLimit), MaxLimit)

\* Faulty variant: the store is asked for its largest page.
KvListLimitMax(limit) == KvListMax

\* index.ts:271  the limit handed to env.WEBHOOKS.list
KvListLimit(limit) == Min(KvListMax, limit)

StartsWith(s, prefix) ==
  Len(s) >= Len(prefix) /\ SubSeq(s, 1, Len(prefix)) = prefix

\* The key names of S in the order the store lists them (ascending).
RECURSIVE SortedKeys(_)
SortedKeys(S) ==
  IF S = {} THEN << >>
  ELSE LET least == CHOOSE k \in S : \A j \in S \ { k } : LexLess(k, j)
       IN << least >> \o SortedKeys(S \ { least })

\* The store's cursors are opaque to the worker: here "@" followed by the
\* key name after which the listing resumes.
KvCursor(name) == << "@" >> \o name

KvCursorIsValid(cursor) == cursor # << >> /\ Head(cursor) = "@"

\* The results env.WEBHOOKS.list({ prefix, cursor, limit }) may give on the
\* store st: the next keys with the prefix after the cursor, in order, at
\* most limit of them and possibly fewer; list_complete is false, and a
\* cursor is given, when keys remain.
KvList(st, prefix, cursor, limit) ==
  LET after == IF cursor = None THEN << >> ELSE Tail(cursor[1])
      remaining == SortedKeys({ k \in DOMAIN st :
                                  StartsWith(k, prefix) /\ (after = << >> \/ LexLess(after, k)) })
  IN { IF n = Len(remaining)
       THEN [keys |-> remaining, list_complete |-> TRUE]
       ELSE [keys |-> SubSeq(remaining, 1, n), list_complete |-> FALSE,
             cursor |-> KvCursor(IF n > 0 THEN remaining[n] ELSE after)] :
       n \in 0..Min(limit, Len(remaining)) }

\* Faulty variant: the cursor of the page is never passed on.
ListCursorNever(page) == None

\* index.ts:283  the cursor of the result, None for undefined
ListCursor(page) ==
  IF "list_complete" \in DOMAIN page /\ page.list_complete = FALSE
  THEN Some(page.cursor)
  ELSE None

\* Faulty variant: every page is reported complete.
ListCompleteAlways(page) == TRUE

\* index.ts:284
ListComplete(page) ==
  IF "list_complete" \in DOMAIN page THEN page.list_complete ELSE TRUE

\* results.filter(r => r !== null), of the results that have settled
RECURSIVE FilterNotNull(_)
FilterNotNull(results) ==
  IF results = << >> THEN << >>
  ELSE (IF Head(results) = None THEN << >> ELSE << Head(results)[1] >>)
       \o FilterNotNull(Tail(results))

\* index.ts:255-258  JSON.stringify({ events, cursor, listComplete }) leaves
\* out a property that is undefined.
ListResponse(results, page) ==
  LET events == FilterNotNull([i \in DOMAIN results |-> results[i].value])
      cursor == ListCursor(page)
      listComplete == ListComplete(page)
  IN Response("list", 200,
              IF cursor = None
              THEN [events |-> events, listComplete |-> listComplete]
              ELSE [events |-> events, cursor |-> cursor[1], listComplete |-> listComplete])

\* index.ts:54-60  what the catch of the list route answers
ListErrorResponse ==
  Response("list", 200, [events |-> << >>, listComplete |-> TRUE, error |-> ErrStore])

\* The state of one get of the page: not settled, or settled with its value.
Pending == [settled |-> FALSE, value |-> None]
Settled(value) == [settled |-> TRUE, value |-> value]

NoList ==
  [phase |-> "idle", apiKey |-> << >>, limit |-> 0, listLimit |-> 0,
   page |-> [keys |-> << >>, list_complete |-> TRUE], results |-> << >>]

\* The positions of the page whose get has not settled.
PendingGets(l) ==
  IF l.phase = "hydrating"
  THEN { i \in DOMAIN l.results : l.results[i] = Pending }
  ELSE {}

\* Faulty variant: the cursor of the request is dropped.
CursorParamDropped(cursor) == None

\* index.ts:250  url.searchParams.get("cursor") || undefined
CursorParam(cursor) ==
  IF cursor = None \/ cursor[1] = << >> THEN None ELSE cursor

\* handleListEvents and listEventsForApiKey up to the await of Promise.all:
\* the gate, the limit, the list call to the store (which may fail, as it
\* does on a cursor that is not one of its own) and one get issued per key
\* of the page. With no key on the page the answer is given at once.
ListStart(request) ==
  /\ PendingGets(lst) = {}
  /\ LET selected == request.keyParam
         apiKey == toEffectiveKey(IF selected # None THEN selected ELSE readApiKey(request.src))
     IN IF ~isApiKeyAllowed(apiKey, env)
        THEN /\ resp' = Response("list", 403, [error |-> ErrForbidden])
             /\ UNCHANGED << env, now, store, del, lst, scan, bulk >>
        ELSE LET limitParam == request.limit
                 cursorParam == CursorParam(request.cursor)
                 limit == LimitOf(limitParam)
                 prefix == apiKey \o << ":" >>
             IN \/ /\ resp' = ListErrorResponse
                   /\ lst' = [NoList EXCEPT !.phase = "failed", !.apiKey = apiKey, !.limit = limit,
                                             !.listLimit = KvListLimit(limit)]
                   /\ UNCHANGED << env, now, store, del, scan, bulk >>
                \/ /\ cursorParam # None => KvCursorIsValid(cursorParam[1])
                   /\ \E page \in KvList(store, prefix, cursorParam, KvListLimit(limit)) :
                        /\ lst' = [phase |-> IF page.keys = << >> THEN "done" ELSE "hydrating",
                                   apiKey |-> apiKey, limit |-> limit,
                                   listLimit |-> KvListLimit(limit), page |-> page,
                                   results |-> [i \in DOMAIN page.keys |-> Pending]]
                        /\ resp' = IF page.keys = << >> THEN ListResponse(<< >>, page) ELSE resp
                   /\ UNCHANGED << env, now, store, del, scan, bulk >>

\* Faulty variant: the get of the i-th key takes the record out of the store.
ListGetOkConsuming(i) ==
  /\ i \in PendingGets(lst)
  /\ LET results == [lst.results EXCEPT ![i] = Settled(KvGetJson(store, lst.page.keys[i]))]
         last == PendingGets(lst) = { i }
     IN /\ lst' = [lst EXCEPT !.results = results,
                              !.phase = IF last THEN "done" ELSE "hydrating"]
        /\ resp' = IF last THEN ListResponse(results, lst.page) ELSE resp
  /\ store' = [k \in DOMAIN store \ { lst.page.keys[i] } |-> store[k]]
  /\ UNCHANGED << env, now, del, scan, bulk >>

\* The get of the i-th key of the page settles: the record, or null when
\* the key is no longer stored. The last get to settle fulfils Promise.all
\* and the page is answered.
ListGetOk(i) ==
  /\ i \in PendingGets(lst)
  /\ LET results == [lst.results EXCEPT ![i] = Settled(KvGetJson(store, lst.page.keys[i]))]
         last == PendingGets(lst) = { i }
     IN /\ lst' = [lst EXCEPT !.results = results,
                              !.phase = IF last THEN "done" ELSE "hydrating"]
        /\ resp' = IF last THEN ListResponse(results, lst.page) ELSE resp
  /\ UNCHANGED << env, now, store, del, scan, bulk >>

\* The get of the i-th key is failed by the store: Promise.all rejects and
\* the catch of the route answers.
ListGetFail(i) ==
  /\ i \in PendingGets(lst)
  /\ lst' = [lst EXCEPT !.phase = "failed"]
  /\ resp' = ListErrorResponse
  /\ UNCHANGED << env, now, store, del, scan, bulk >>

\* ----------------------------------------------------- namespace discovery

\* index.ts:290  maxScan
MaxScan == 2000
\* index.ts:295  limit: 1000
ScanListLimit == 1000

\* The namespace of the events that bulk counts; their keys list after the
\* keys of every other namespace used here.
BulkNs == << "z" >>
BulkKey == makeStorageKey(BulkNs, << "z" >>)

\* The store's cursor of an unprefixed listing: the name of the last key of
\* store passed (none yet: the empty string), the number of bulk keys passed,
\* and a serial, by which the cursor of a page differs from the cursor the
\* page was asked with even when no key was passed.
ScanCursor(name, passed, serial) == [name |-> name, passed |-> passed, serial |-> serial]

NoScan ==
  [phase |-> "idle", cursor |-> None, scanned |-> 0, distinct |-> {}]

\* The sizes of the pages the store may return when remaining keys are left
\* and limit are asked for: none, one (on the first call), one fewer than
\* asked for, as many as asked for, and all that are left.
ScanPageSizes(remaining, limit, first) ==
  { n \in { 0, limit - 1, limit, remaining } \cup (IF first THEN { 1 } ELSE {}) :
      n <= Min(limit, remaining) }

\* The results env.WEBHOOKS.list({ cursor, limit }) may give: the next keys
\* of store after the cursor, in order, then the next of the bulk keys, of
\* which the page holds the number.
KvListAll(st, blk, cursor, limit) ==
  LET after == IF cursor = None THEN ScanCursor(<< >>, 0, 0) ELSE cursor[1]
      names == IF after.passed > 0 THEN << >>
               ELSE SortedKeys({ k \in DOMAIN st : after.name = << >> \/ LexLess(after.name, k) })
      remaining == Len(names) + (blk - after.passed)
  IN { LET listed == SubSeq(names, 1, Min(n, Len(names)))
           bulkListed == n - Len(listed)
       IN IF n = remaining
          THEN [keys |-> listed, bulkKeys |-> bulkListed, list_complete |-> TRUE]
          ELSE [keys |-> listed, bulkKeys |-> bulkListed, list_complete |-> FALSE,
                cursor |-> ScanCursor(IF listed = << >> THEN after.name ELSE listed[Len(listed)],
                                      after.passed + bulkListed, 1 - after.serial)] :
       n \in ScanPageSizes(remaining, limit, cursor = None) }

\* index.ts:299-300  the part of the name before the first ":"
ScanPrefix(name) ==
  LET idx == IndexOf(name, ":", 1)
  IN IF idx = 0 THEN name ELSE SubSeq(name, 1, idx - 1)

\* Faulty variant: NO_KEY is not skipped.
ScanKeepsEvery(prefix) == prefix # << >>

\* index.ts:302  prefix && prefix !== NO_KEY
ScanKeeps(prefix) == prefix # << >> /\ prefix # NO_KEY

\* index.ts:296-303  the prefixes the keys of the page add to distinct
PagePrefixes(page) ==
  { prefix \in { ScanPrefix(page.keys[i]) : i \in DOMAIN page.keys }
               \cup (IF page.bulkKeys > 0 THEN { ScanPrefix(BulkKey) } ELSE {}) :
      ScanKeeps(prefix) }

\* index.ts:310  the sort of the namespaces found. For the namespaces used
\* here (lower-case letters) localeCompare orders as the code units do.
SortedNamespaces(S) == SortedKeys(S)

\* index.ts:311
KeysResponse(distinct) == Response("keys", 200, [keys |-> SortedNamespaces(distinct)])

\* Faulty variant: the failure is answered as a server error.
KeysErrorResponseHard == Response("keys", 500, [error |-> ErrStore])

\* index.ts:74-77  what the catch of the discovery route answers
KeysErrorResponse == Response("keys", 200, [keys |-> << >>, error |-> ErrStore])

\* index.ts:294  while (scanned < maxScan)
ScanGoesOn(scanned) == scanned < MaxScan

\* handleListDistinctKeys up to the first test of the loop.
ScanStart ==
  /\ scan.phase # "running"
  /\ scan' = [NoScan EXCEPT !.phase = "running"]
  /\ UNCHANGED << env, now, store, resp, del, lst, bulk >>

\* One turn of the loop of handleListDistinctKeys: the list call, which may
\* fail, the keys of the page, and the test whether to go on; when the loop
\* is left the namespaces found are answered.
ScanList ==
  /\ scan.phase = "running"
  /\ \/ /\ scan' = [scan EXCEPT !.phase = "failed"]
        /\ resp' = KeysErrorResponse
     \/ \E page \in KvListAll(store, bulk, scan.cursor, ScanListLimit) :
          LET scanned == scan.scanned + Len(page.keys) + page.bulkKeys
              distinct == scan.distinct \cup PagePrefixes(page)
              goesOn == page.list_complete = FALSE /\ ScanGoesOn(scanned)
          IN /\ scan' = [phase |-> IF goesOn THEN "running" ELSE "done",
                         cursor |-> IF page.list_complete = FALSE THEN Some(page.cursor) ELSE scan.cursor,
                         scanned |-> scanned, distinct |-> distinct]
             /\ resp' = IF goesOn THEN resp ELSE KeysResponse(distinct)
  /\ UNCHANGED << env, now, store, del, lst, bulk >>

\* The clock advances.
Tick == /\ now < MaxTick
        /\ now' = now + 1
        /\ UNCHANGED << env, store, resp, del, lst, scan, bulk >>

vars == << env, now, store, resp, del, lst, scan, bulk >>

Init ==
  /\ env \in Envs
  /\ now = 0
  /\ store = [k \in {} |-> 0]
  /\ resp = Response("none", 0, [ok |-> TRUE])
  /\ del = NoDelete
  /\ lst = NoList
  /\ scan = NoScan
  /\ bulk = 0

NextIngest == Webhook \/ Tick

\* Ingestion alone, with every request of WebhookRequests.
SpecIngest == Init /\ [][NextIngest]_vars

\* Ingestion at one instant of the clock.
SpecValidate == Init /\ [][Webhook]_vars

\* ------------------------------------------------- batch delete: the runs

IdX == generateEventId(0, << "x" >>)
IdY == generateEventId(0, << "y" >>)
\* An id no ingestion generates.
IdJunk == << "z" >>

\* The ids arrays of the delete requests: short ones, with and without
\* repeats and unknown ids, and ones around the guardrail of 500.
DeleteIdLists ==
  { IdList(IdX, 0, << IdX >>),
    IdList(IdX, 0, << IdJunk >>),
    IdList(IdX, 0, << IdX, IdY >>),
    IdList(IdX, 0, << IdY, IdY >>),
    IdList(IdX, MaxDeleteIds - 1, << IdY >>),
    IdList(IdX, MaxDeleteIds, << IdY >>),
    IdList(IdJunk, MaxDeleteIds, << IdX, IdY >>) }

ObjectPayload(key, kind, list) ==
  [kind |-> "object", key |-> key, ids |-> [kind |-> kind, list |-> list]]

DeleteRequests ==
  { [authorized |-> TRUE, payload |-> ObjectPayload(key, "array", list)] :
      key \in { None, Some(NsD) }, list \in DeleteIdLists }
  \cup { [authorized |-> FALSE, payload |-> ObjectPayload(None, "array", IdList(IdX, 0, << IdX >>))],
         [authorized |-> TRUE, payload |-> [kind |-> "invalid"]],
         [authorized |-> TRUE, payload |-> [kind |-> "other"]],
         [authorized |-> TRUE, payload |-> ObjectPayload(Some(NsD), "absent", NoIds)],
         [authorized |-> TRUE, payload |-> ObjectPayload(Some(NsD), "notArray", NoIds)],
         [authorized |-> TRUE, payload |-> ObjectPayload(Some(NsD), "array", NoIds)] }

\* The ingestions that fill the store in the runs about listing and
\* deletion: one flat body, with and without a key.
SeedRequests ==
  { [src |-> k, body |-> WireBody("object", "{}", [p \in {"a"} |-> "\"x\""])] :
      k \in { NoKeySource, DKeySource } }

Seed == \E request \in SeedRequests : handleWebhook(request)

Delete == \E request \in DeleteRequests : DeleteStart(request)

DeleteOk == \E k \in PendingKeys(del) : DeleteCallOk(k)

DeleteFail == \E k \in PendingKeys(del), removed \in BOOLEAN : DeleteCallFail(k, removed)

NextDelete == Seed \/ Delete \/ DeleteOk \/ DeleteFail

\* Ingestion and batch deletion, interleaved.
SpecDelete == Init /\ [][NextDelete]_vars

\* ------------------------------------------------------ listing: the runs

ListRequest(src, keyParam, limit, cursor) ==
  [src |-> src, keyParam |-> keyParam, limit |-> limit, cursor |-> cursor]

\* The list requests: the ways the namespace is named, the limit
\* parameters, and the cursors that do not come from the store.
ListRequests ==
  { ListRequest(NoKeySource, None, None, None),
    ListRequest(NoKeySource, Some(NsD), None, None),
    ListRequest(DKeySource, Some(<< >>), None, None) }
  \cup { ListRequest(DKeySource, None, limit, None) :
           limit \in { None, Some(<< "1" >>), Some(<< "-", "1" >>), Some(<< "3", "0", "0" >>) } }
  \cup { ListRequest(DKeySource, None, Some(<< "1" >>), cursor) :
           cursor \in { Some(<< >>), Some(<< "x" >>) } }

\* The requests that follow the page last answered with its cursor.
FollowUpRequests ==
  IF resp.op = "list" /\ "cursor" \in DOMAIN resp.json
  THEN { ListRequest(src, None, None, Some(resp.json.cursor)) :
           src \in { NoKeySource, DKeySource } }
  ELSE {}

\* Single deletions, issued while a page is being read: they make listed
\* keys vanish before their get.
PurgeRequests ==
  { [authorized |-> TRUE, payload |-> ObjectPayload(key, "array", IdList(IdX, 0, << id >>))] :
      key \in { None, Some(NsD) }, id \in { IdX, IdY } }

List == \E request \in ListRequests \cup FollowUpRequests : ListStart(request)

ListGet == \E i \in PendingGets(lst) : ListGetOk(i)

ListFail == \E i \in PendingGets(lst) : ListGetFail(i)

Purge == PendingGets(lst) # {} /\ \E request \in PurgeRequests : DeleteStart(request)

NextList == Seed \/ List \/ ListGet \/ ListFail \/ Purge \/ DeleteOk

\* Ingestion, listing and single deletions, interleaved.
SpecList == Init /\ [][NextList]_vars

\* ------------------------------------------------------- the gate: the runs

NsO == << "o" >>
NsDO == << "d", "o" >>

\* The configured allowlists, each with the entries it stands for.
AllowlistCases ==
  { [raw |-> None, entries |-> {}],
    [raw |-> Some(<< >>), entries |-> {}],
    [raw |-> Some(<< " ", ",", " " >>), entries |-> {}],
    [raw |-> Some(<< " ", "d", ",", " " >>), entries |-> { NsD }],
    [raw |-> Some(<< "d", ",", "o" >>), entries |-> { NsD, NsO }],
    [raw |-> Some(<< "d", "o" >>), entries |-> { NsDO }],
    [raw |-> Some(NO_KEY), entries |-> { NO_KEY }] }

GateEnvs ==
  { [ALLOWED_API_KEYS |-> c.raw, RETENTION_DAYS |-> None] : c \in AllowlistCases }

\* The ways a request names its namespace, each with the namespace meant:
\* no key at all, empty or blank values, a key, a key with blanks around it.
\* (A header value never has blanks around it; a query value may.)
NamedSources ==
  { [src |-> NoKeySource, ns |-> NO_KEY],
    [src |-> [key |-> Some(<< >>), api_key |-> Some(<< " ", " " >>), x_api_key |-> None],
     ns |-> NO_KEY],
    [src |-> DKeySource, ns |-> NsD],
    [src |-> TrimmedKeySource, ns |-> NsD],
    [src |-> [key |-> None, api_key |-> None, x_api_key |-> Some(NsO)], ns |-> NsO],
    [src |-> [key |-> Some(NsDO), api_key |-> Some(NsD), x_api_key |-> None], ns |-> NsDO] }

GateBody == WireBody("object", "{}", [p \in {"a"} |-> "\"x\""])

GateWebhookRequests ==
  { [src |-> n.src, body |-> GateBody, ns |-> n.ns] : n \in NamedSources }

\* List requests: the key parameter omitted (the namespace is then read as
\* for an ingest), empty, blank, or naming a namespace.
GateListRequests ==
  { [src |-> n.src, keyParam |-> None, limit |-> None, cursor |-> None, ns |-> n.ns] :
      n \in NamedSources }
  \cup { [src |-> src, keyParam |-> k.param, limit |-> None, cursor |-> None, ns |-> k.ns] :
           src \in { NoKeySource, DKeySource },
           k \in { [param |-> Some(<< >>), ns |-> NO_KEY],
                   [param |-> Some(<< " " >>), ns |-> NO_KEY],
                   [param |-> Some(NsO), ns |-> NsO] } }

GateDeleteRequests ==
  { [authorized |-> TRUE, payload |-> ObjectPayload(k.key, "array", IdList(IdX, 0, << IdX >>)),
     ns |-> k.ns] :
      k \in { [key |-> None, ns |-> NO_KEY],
              [key |-> Some(<< >>), ns |-> NO_KEY],
              [key |-> Some(<< " ", " " >>), ns |-> NO_KEY],
              [key |-> Some(NsD), ns |-> NsD],
              [key |-> Some(<< " ", "o", " " >>), ns |-> NsO] } }

GateWebhook == \E request \in GateWebhookRequests : handleWebhook(request)

InitGate ==
  /\ env \in GateEnvs
  /\ now = 0
  /\ store = [k \in {} |-> 0]
  /\ resp = Response("none", 0, [ok |-> TRUE])
  /\ del = NoDelete
  /\ lst = NoList
  /\ scan = NoScan
  /\ bulk = 0

\* Ingest requests under every allowlist of AllowlistCases.
SpecGate == InitGate /\ [][GateWebhook]_vars

\* The allowlists with one entry, "d" or NO-KEY.
RefusingEnvs ==
  { e \in GateEnvs : e.ALLOWED_API_KEYS \in { Some(<< " ", "d", ",", " " >>), Some(NO_KEY) } }

RefusedWebhookRequests ==
  { request \in GateWebhookRequests : request.src \in { NoKeySource, DKeySource } }

RefusedListRequests ==
  { request \in GateListRequests :
      \/ (request.src = NoKeySource /\ request.keyParam \in { None, Some(NsO) })
      \/ (request.src = DKeySource /\ request.keyParam = None) }

RefusedDeleteRequests ==
  { request \in GateDeleteRequests : request.payload.key \in { None, Some(NsD) } }

RefusedWebhook == \E request \in RefusedWebhookRequests : handleWebhook(request)

RefusedList == \E request \in RefusedListRequests : ListStart(request)

RefusedDelete == \E request \in RefusedDeleteRequests : DeleteStart(request)

InitRefusing ==
  /\ env \in RefusingEnvs
  /\ now = 0
  /\ store = [k \in {} |-> 0]
  /\ resp = Response("none", 0, [ok |-> TRUE])
  /\ del = NoDelete
  /\ lst = NoList
  /\ scan = NoScan
  /\ bulk = 0

NextRefusing == RefusedWebhook \/ RefusedList \/ ListGet \/ RefusedDelete \/ DeleteOk

\* Ingest, list and delete requests, admitted and refused, under the
\* allowlists of RefusingEnvs.
SpecRefusing == InitRefusing /\ [][NextRefusing]_vars

\* --------------------------------------------- namespace defaulting: the runs

\* No list or delete request is in flight.
Quiet == PendingGets(lst) = {} /\ PendingKeys(del) = {}

\* The requests of these runs arrive while no other is in flight; a run ends
\* with the store calls of a list or delete request issued.
NamingWebhook == Quiet /\ GateWebhook

NamingList == Quiet /\ \E request \in GateListRequests : ListStart(request)

NamingDelete == Quiet /\ \E request \in GateDeleteRequests : DeleteStart(request)

InitOpen ==
  /\ env = [ALLOWED_API_KEYS |-> None, RETENTION_DAYS |-> None]
  /\ now = 0
  /\ store = [k \in {} |-> 0]
  /\ resp = Response("none", 0, [ok |-> TRUE])
  /\ del = NoDelete
  /\ lst = NoList
  /\ scan = NoScan
  /\ bulk = 0

NextNaming == NamingWebhook \/ NamingList \/ NamingDelete

\* Ingest, list and delete requests naming their namespace in every way of
\* NamedSources, with no allowlist, up to the store calls they issue.
SpecNaming == InitOpen /\ [][NextNaming]_vars

\* -------------------------------------------- namespace discovery: the runs

NsColon == << "d", ":", "o" >>

\* The ingestions of the runs about discovery: without a key, under "d" and
\* under a namespace that holds a colon.
ScanSeedRequests ==
  { [src |-> k, body |-> GateBody] :
      k \in { NoKeySource, DKeySource,
              [key |-> Some(NsColon), api_key |-> None, x_api_key |-> None] } }

\* The numbers of events stored under "z" beforehand.
BulkSizes == { 0, MaxScan - MaxStored, MaxScan + ScanListLimit - 1 }

\* Ingestions arrive while no discovery is under way.
ScanSeed == scan.phase # "running" /\ \E request \in ScanSeedRequests : handleWebhook(request)

InitScan ==
  /\ env = [ALLOWED_API_KEYS |-> None, RETENTION_DAYS |-> None]
  /\ now = 0
  /\ store = [k \in {} |-> 0]
  /\ resp = Response("none", 0, [ok |-> TRUE])
  /\ del = NoDelete
  /\ lst = NoList
  /\ scan = NoScan
  /\ bulk \in BulkSizes

NextScan == ScanSeed \/ ScanStart \/ ScanList

\* Ingestion and namespace discovery.
SpecScan == InitScan /\ [][NextScan]_vars

\* The loop of a discovery goes on: each list call it awaits is answered.
SpecScanFair == SpecScan /\ WF_vars(ScanList)

\* ------------------------------------------------ store failures: the runs

FailingSeedRequests == { [src |-> DKeySource, body |-> GateBody] }

FailingListRequests == { ListRequest(DKeySource, None, None, None) }

FailingDeleteRequests ==
  { [authorized |-> TRUE, payload |-> ObjectPayload(Some(NsD), "array", list)] :
      list \in { IdList(IdX, 0, << IdX >>), IdList(IdX, 0, << IdX, IdY >>) } }

\* No request is in flight.
Idle == Quiet /\ scan.phase # "running"

FailingSeed == Idle /\ \E request \in FailingSeedRequests : handleWebhook(request)

FailingList == Idle /\ \E request \in FailingListRequests : ListStart(request)

FailingDelete == Idle /\ \E request \in FailingDeleteRequests : DeleteStart(request)

FailingScan == Idle /\ ScanStart

NextFailing ==
  \/ FailingSeed
  \/ FailingList \/ ListGet \/ ListFail
  \/ FailingDelete \/ DeleteOk \/ DeleteFail
  \/ FailingScan \/ ScanList

\* One request at a time, each store call of which may fail.
SpecFailing == InitOpen /\ [][NextFailing]_vars

\* ---------------------------------------------------- pagination: the runs

OpenEnv == [ALLOWED_API_KEYS |-> None, RETENTION_DAYS |-> None]

\* What handleWebhook stores for GateBody ingested under apiKey at tick t
\* with the random suffix rand, no allowlist and no retention configured.
StoredEvent(apiKey, t, rand) ==
  LET id == generateEventId(t, rand)
      receivedAt == ToISOString(t)
  IN [value |-> [id |-> id, apiKey |-> apiKey, receivedAt |-> receivedAt,
                 body |-> JsonStringifyBody(RequestJson(GateBody))],
      expirationTtl |-> getRetentionTtlSeconds(OpenEnv),
      metadata |-> [apiKey |-> apiKey, receivedAt |-> receivedAt]]

\* Three events under "d" and one under NO-KEY.
PagingEvents ==
  { StoredEvent(NsD, 0, << "x" >>), StoredEvent(NsD, 0, << "y" >>),
    StoredEvent(NsD, 1, << "x" >>), StoredEvent(NO_KEY, 0, << "y" >>) }

\* The store after the ingestion of the events of S.
StoreOf(S) ==
  [k \in { makeStorageKey(e.value.apiKey, e.value.id) : e \in S } |->
     CHOOSE e \in S : makeStorageKey(e.value.apiKey, e.value.id) = k]

PagingLimits == { Some(<< "1" >>), Some(<< "2" >>) }

\* The page last answered gave a cursor to go on with.
Unfinished(r) == r.op = "list" /\ "cursor" \in DOMAIN r.json

\* A walk through the events of "d" starts with no cursor.
PagingStart ==
  /\ ~Unfinished(resp)
  /\ \E limit \in PagingLimits : ListStart(ListRequest(DKeySource, None, limit, None))

\* The walk goes on with the cursor of the page last answered.
PagingNext ==
  /\ Unfinished(resp)
  /\ \E limit \in PagingLimits :
       ListStart(ListRequest(NoKeySource, Some(NsD), limit, Some(resp.json.cursor)))

InitPaging ==
  /\ env = OpenEnv
  /\ now = 0
  /\ store \in { StoreOf(S) : S \in SUBSET PagingEvents }
  /\ resp = Response("none", 0, [ok |-> TRUE])
  /\ del = NoDelete
  /\ lst = NoList
  /\ scan = NoScan
  /\ bulk = 0

NextPaging == PagingStart \/ PagingNext \/ ListGet \/ ListFail

\* Walks through the pages of a namespace whose keys do not change.
SpecPaging == InitPaging /\ [][NextPaging]_vars

\* --------------------------------------------------------- limits: the runs

\* The limit parameters: absent, empty, not a number, zero, negative, within
\* the range, at its ends and beyond them; with what Number() gives for each
\* (NaN: none).
LimitCases ==
  { [raw |-> None, number |-> None],
    [raw |-> Some(<< >>), number |-> Some(0)],
    [raw |-> Some(<< "x" >>), number |-> None],
    [raw |-> Some(<< "-" >>), number |-> None],
    [raw |-> Some(<< "0" >>), number |-> Some(0)],
    [raw |-> Some(<< "-", "1" >>), number |-> Some(0 - 1)],
    [raw |-> Some(<< "1" >>), number |-> Some(1)],
    [raw |-> Some(<< " ", "2", " " >>), number |-> Some(2)],
    [raw |-> Some(<< "2", "0", "0" >>), number |-> Some(200)],
    [raw |-> Some(<< "2", "0", "1" >>), number |-> Some(201)],
    [raw |-> Some(<< "1", "0", "0", "1" >>), number |-> Some(1001)] }

LimitRequests ==
  { [src |-> DKeySource, keyParam |-> None, limit |-> c.raw, cursor |-> None,
     number |-> c.number] : c \in LimitCases }

LimitList == \E request \in LimitRequests : ListStart(request)

NextLimit == LimitList \/ ListGet

\* Listings of a store that does not change, with every limit parameter.
SpecLimit == InitPaging /\ [][NextLimit]_vars

\* ------------------------------------------------------ retention: the runs

\* The settings of RETENTION_DAYS, with the number of days each stands for
\* as a quotient (none: not a number).
RetentionCases ==
  { [raw |-> None, days |-> Some([num |-> 30, den |-> 1])],
    [raw |-> Some(<< >>), days |-> Some([num |-> 0, den |-> 1])],
    [raw |-> Some(<< "0" >>), days |-> Some([num |-> 0, den |-> 1])],
    [raw |-> Some(<< "-", "1" >>), days |-> Some([num |-> 0 - 1, den |-> 1])],
    [raw |-> Some(<< "x" >>), days |-> None],
    [raw |-> Some(<< "1" >>), days |-> Some([num |-> 1, den |-> 1])],
    [raw |-> Some(<< " ", "2", " " >>), days |-> Some([num |-> 2, den |-> 1])],
    [raw |-> Some(<< "0", ".", "0", "0", "0", "0", "1" >>),
     days |-> Some([num |-> 1, den |-> 100000])] }

RetentionEnvs == { [ALLOWED_API_KEYS |-> None, RETENTION_DAYS |-> c.raw] : c \in RetentionCases }

RetentionWebhook == \E request \in SeedRequests : handleWebhook(request)

InitRetention ==
  /\ env \in RetentionEnvs
  /\ now = 0
  /\ store = [k \in {} |-> 0]
  /\ resp = Response("none", 0, [ok |-> TRUE])
  /\ del = NoDelete
  /\ lst = NoList
  /\ scan = NoScan
  /\ bulk = 0

NextRetention == RetentionWebhook \/ Tick

\* Ingestion under every setting of the retention.
SpecRetention == InitRetention /\ [][NextRetention]_vars

\* ------------------------------------------------------- ordering: the runs

OrderSeedRequests == { [src |-> DKeySource, body |-> GateBody] }

OrderSeed == PendingGets(lst) = {} /\ \E request \in OrderSeedRequests : handleWebhook(request)

OrderList == ListStart(ListRequest(DKeySource, None, None, None))

NextOrder == OrderSeed \/ Tick \/ OrderList \/ ListGet

\* Ingestions under "d" as the clock advances, and listings of "d" whose
\* gets settle in any order.
SpecOrder == InitOpen /\ [][NextOrder]_vars

\* ------------------------------------------------------ isolation: the runs

IsolationListRequests ==
  { ListRequest(NoKeySource, Some(NsD), None, None),
    ListRequest(NoKeySource, None, None, None) }

\* Batch deletes for "d" and for NO-KEY, by the id of an event and by an id
\* that holds a colon.
IsolationDeleteRequests ==
  { [authorized |-> TRUE, payload |-> ObjectPayload(key, "array", IdList(IdX, 0, << id >>))] :
      key \in { None, Some(NsD) }, id \in { IdX, << "o", ":" >> \o IdX } }

IsolationSeed == Quiet /\ \E request \in ScanSeedRequests : handleWebhook(request)

IsolationList == Quiet /\ \E request \in IsolationListRequests : ListStart(request)

IsolationDelete == Quiet /\ \E request \in IsolationDeleteRequests : DeleteStart(request)

NextIsolation == IsolationSeed \/ IsolationList \/ ListGet \/ IsolationDelete \/ DeleteOk

\* Ingestions under several namespaces, and listings and batch deletes of
\* one namespace at a time.
SpecIsolation == InitOpen /\ [][NextIsolation]_vars

\* ---------------------------------------------------- claims: ingestion

GateAllows(request) == isApiKeyAllowed(toEffectiveKey(readApiKey(request.src)), env)

IngestKey(request, id) == makeStorageKey(toEffectiveKey(readApiKey(request.src)), id)

\* C1: a successful ingest of a flat JSON object B under namespace n that
\* returns id i leaves at key n:i a record with id i whose body, read back
\* with get, is the JSON object B.
C1_IngestThenGetReturnsBody ==
  [][\A request \in WebhookRequests :
       (handleWebhook(request) /\ resp'.status = 200) =>
         LET got == KvGetJson(store', IngestKey(request, resp'.json.id))
         IN /\ got # None
            /\ got[1].id = resp'.json.id
            /\ JsonStringifyBody([props |-> got[1].body]) = request.body.props]_vars

\* C2: every accepted ingest puts to a storage key that no earlier ingest
\* wrote, so no record is overwritten.
C2_IngestsNeverShareAKey ==
  [][\A request \in WebhookRequests :
       (handleWebhook(request) /\ resp'.status = 200) =>
         IngestKey(request, resp'.json.id) \notin DOMAIN store]_vars

ArraysWithNested == { "[[1]]", "[{\"c\":1}]" }

\* The JSON value contains at least one nested object or array.
ContainsNested(wire) ==
  \/ wire.kind = "object" /\ \E p \in DOMAIN wire.props : wire.props[p] \in NestedTokens
  \/ wire.kind = "array" /\ wire.tok \in ArraysWithNested

\* C3 as stated: every JSON value containing a nested object or array is
\* refused with the NestedValue rejection and the store is unchanged.
C3_AnyNestedValueIsNestedValue ==
  [][\A request \in WebhookRequests :
       (GateAllows(request) /\ ContainsNested(request.body) /\ handleWebhook(request)) =>
         /\ resp' = Response("webhook", 400, [error |-> ErrNested])
         /\ store' = store]_vars

\* C3 amended: every JSON object with a property value that is an object or
\* an array is refused with the NestedValue rejection and the store is
\* unchanged; a top-level array is refused as NotObject, whatever it holds.
C3_NestedPropertyIsNestedValue ==
  [][\A request \in WebhookRequests :
       (GateAllows(request) /\ ContainsNested(request.body) /\ handleWebhook(request)) =>
         /\ store' = store
         /\ resp'.status = 400
         /\ resp'.json.error =
              (IF request.body.kind = "object" THEN ErrNested ELSE ErrNotObject)]_vars

C3_Witness ==
  /\ resp = Response("webhook", 400, [error |-> ErrNested])
  /\ DOMAIN store # {}

\* A JSON object whose every property value is a scalar.
IsFlatJsonObject(wire) ==
  wire.kind = "object" /\ \A p \in DOMAIN wire.props : wire.props[p] \in ScalarTokens

\* C4: the validator accepts a parsed JSON value iff it is a JSON object
\* whose every property value is a scalar; a top-level non-object is refused
\* with NotObject; on a rejection nothing is put.
C4_ValidatorAcceptsExactlyFlatObjects ==
  [][\A request \in WebhookRequests :
       (GateAllows(request) /\ request.body.kind # "invalid" /\ handleWebhook(request)) =>
         /\ (resp'.status \in { 200, 500 }) <=> IsFlatJsonObject(request.body)
         /\ request.body.kind # "object" => resp'.json.error = ErrNotObject
         /\ resp'.status = 400 => store' = store]_vars

\* A body with a null property has been accepted and stored while the
\* store already held a record.
C4_Witness ==
  /\ resp.op = "webhook" /\ resp.status = 200
  /\ \E k \in DOMAIN store :
        /\ store[k].value.id = resp.json.id
        /\ "b" \in DOMAIN store[k].value.body
        /\ store[k].value.body["b"] = "null"
  /\ Cardinality(DOMAIN store) = 2


\* ------------------------------------------------------- claims: listing

\* The response is the answer of the list route to a request that passed
\* the gate: a page, or the degraded page of a store failure.
IsListPage == resp.op = "list" /\ resp.status = 200

\* C5: in every page the list operation answers, the one answered when a
\* store call fails included, the cursor is absent iff listComplete is true.
C5_CursorAbsentIffListComplete ==
  IsListPage => (("cursor" \notin DOMAIN resp.json) <=> (resp.json.listComplete = TRUE))

\* A page with an event has been answered with listComplete false and the
\* cursor of the store.
C5_Witness ==
  /\ IsListPage
  /\ resp.json.listComplete = FALSE
  /\ "cursor" \in DOMAIN resp.json /\ KvCursorIsValid(resp.json.cursor)
  /\ Len(resp.json.events) = 1

\* C6: a page answered to a list request with effective limit N holds at
\* most N events, and no more events than the store returned keys for it.
C6_AtMostLimitEvents ==
  (IsListPage /\ lst.phase = "done") =>
     /\ Len(resp.json.events) <= lst.limit
     /\ Len(resp.json.events) <= Len(lst.page.keys)
     /\ lst.limit \in MinLimit..MaxLimit

\* A page of one event has been answered under limit 1 while the store
\* holds two events of the namespace.
C6_Witness ==
  /\ IsListPage /\ lst.phase = "done"
  /\ lst.limit = 1
  /\ Len(resp.json.events) = 1
  /\ Cardinality({ k \in DOMAIN store : StartsWith(k, lst.apiKey \o << ":" >>) }) = 2

\* --------------------------------------------------- claims: batch delete

\* The storage keys derived from the ids at positions 1..500 of the batch.
First500Keys(apiKey, ids) ==
  (IF ids.n > 0 THEN { makeStorageKey(apiKey, ids.pad) } ELSE {})
  \cup { makeStorageKey(apiKey, ids.tail[j]) :
           j \in { i \in DOMAIN ids.tail : ids.n + i <= 500 } }

\* The step settles the last calls of a batch none of whose calls failed.
BatchFulfils == PendingKeys(del) # {} /\ PendingKeys(del') = {} /\ ~del'.rejected

\* The step fails the first call of a batch.
BatchRejects == ~del.rejected /\ del'.rejected

\* The delete calls for key k succeed in the step.
CallsSucceed(k) == del.outcome[k] = "pending" /\ del'.outcome[k] = "ok"

\* C7: a batch delete issues deletes only for the keys derived from its
\* first 500 ids; every other key of the store, those of the ids beyond 500
\* included, is left as it was by the steps of the batch.
C7_OnlyFirst500KeysDeleted ==
  [][del' # del =>
       /\ DOMAIN del'.outcome \subseteq First500Keys(del'.apiKey, del'.ids)
       /\ \A k \in DOMAIN store \ First500Keys(del'.apiKey, del'.ids) :
            k \in DOMAIN store' /\ store'[k] = store[k]]_vars

\* A batch of 501 ids has answered deleted = 500 and the key of its 501st
\* id is still stored.
C7_Witness ==
  /\ resp = Response("delete", 200, [ok |-> TRUE, deleted |-> 500])
  /\ IdsLength(del.ids) = 501
  /\ PendingKeys(del) = {}
  /\ makeStorageKey(del.apiKey, IdsAt(del.ids, 501)) \in DOMAIN store

\* C8: a batch delete all of whose calls succeed answers deleted =
\* min(length of ids, 500), the number of calls issued, whether or not the
\* keys existed or the ids repeat; every key derived from the first 500 ids
\* has then had its delete applied, and a delete that is applied leaves its
\* key absent.
C8_DeletedCountAndKeysAbsent ==
  [][/\ BatchFulfils =>
          /\ resp' = Response("delete", 200,
                              [ok |-> TRUE, deleted |-> Min(IdsLength(del.ids), 500)])
          /\ \A k \in First500Keys(del.apiKey, del.ids) : del'.outcome[k] = "ok"
     /\ \A k \in DOMAIN del.outcome :
          (DOMAIN del'.outcome = DOMAIN del.outcome /\ CallsSucceed(k)) =>
             KvGetJson(store', k) = None]_vars

\* A batch whose two ids are the same id has answered deleted = 2.
C8_Witness ==
  /\ resp = Response("delete", 200, [ok |-> TRUE, deleted |-> 2])
  /\ del.ids.n = 0 /\ Len(del.ids.tail) = 2 /\ del.ids.tail[1] = del.ids.tail[2]
  /\ PendingKeys(del) = {} /\ ~del.rejected

C10_FailureNeitherRollsBackNorBlocks ==
  [][/\ del' # del =>
          /\ DOMAIN del'.outcome = First500Keys(del'.apiKey, del'.ids)
          /\ DOMAIN store' \subseteq DOMAIN store
     /\ \A k \in PendingKeys(del) : ENABLED DeleteCallOk(k)
     /\ \A k \in DOMAIN del.outcome :
          (DOMAIN del'.outcome = DOMAIN del.outcome /\ del.rejected /\ CallsSucceed(k)) =>
             k \notin DOMAIN store']_vars

\* The batch has answered 500 and is over; one of its keys was removed, the
\* delete of another failed and that key is still stored.
C10_Witness ==
  /\ resp.op = "delete" /\ resp.status = 500
  /\ PendingKeys(del) = {}
  /\ \E k1, k2 \in DOMAIN del.outcome :
        /\ del.outcome[k1] = "ok" /\ k1 \notin DOMAIN store
        /\ del.outcome[k2] = "failed" /\ k2 \in DOMAIN store

\* ------------------------------------------------------ claims: the gate

\* The gate as the allowlist cases state it: open when the allowlist has no
\* entry, else membership of the namespace, as an exact string.
ExpectedAllowed(ns) ==
  LET entries == (CHOOSE c \in AllowlistCases : c.raw = env.ALLOWED_API_KEYS).entries
  IN entries = {} \/ ns \in entries

\* C11: the gate admits every namespace (NO-KEY too) when the allowlist has
\* no entry, and otherwise exactly the namespaces equal to an entry: an
\* ingest under another namespace is refused with ForbiddenNamespace, an
\* ingest under an entry reaches the put and is stored.
C11_GateIsExactMembership ==
  [][\A request \in GateWebhookRequests :
       handleWebhook(request) =>
         /\ isApiKeyAllowed(request.ns, env) <=> ExpectedAllowed(request.ns)
         /\ ~ExpectedAllowed(request.ns) =>
              /\ resp' = Response("webhook", 403, [error |-> ErrForbidden])
              /\ store' = store
         /\ ExpectedAllowed(request.ns) =>
              \/ resp'.status = 500 /\ store' = store
              \/ /\ resp'.status = 200
                 /\ makeStorageKey(request.ns, resp'.json.id) \in DOMAIN store']_vars

\* Under an allowlist whose one entry is "d", an ingest has been refused
\* as forbidden while the store holds an event of namespace "d" and none
\* of another namespace.
C11_Witness ==
  /\ env.ALLOWED_API_KEYS = Some(<< " ", "d", ",", " " >>)
  /\ resp = Response("webhook", 403, [error |-> ErrForbidden])
  /\ DOMAIN store # {}
  /\ \A k \in DOMAIN store : store[k].value.apiKey = NsD

\* C12: a write, list or delete request whose namespace fails the gate is
\* answered 403 ForbiddenNamespace; no put, list, get or delete is issued
\* for it and the store is unchanged.
C12_ForbiddenHasNoEffect ==
  [][/\ \A request \in RefusedWebhookRequests :
          (~ExpectedAllowed(request.ns) /\ handleWebhook(request)) =>
             /\ resp' = Response("webhook", 403, [error |-> ErrForbidden])
             /\ UNCHANGED << store, del, lst >>
     /\ \A request \in RefusedListRequests :
          (~ExpectedAllowed(request.ns) /\ ListStart(request)) =>
             /\ resp' = Response("list", 403, [error |-> ErrForbidden])
             /\ UNCHANGED << store, del, lst >>
     /\ \A request \in RefusedDeleteRequests :
          (~ExpectedAllowed(request.ns) /\ DeleteStart(request)) =>
             /\ resp' = Response("delete", 403, [error |-> ErrForbidden])
             /\ UNCHANGED << store, del, lst >>]_vars

\* A delete request has been refused as forbidden while the store holds an
\* event, and no delete call is pending.
C12_Witness ==
  /\ resp = Response("delete", 403, [error |-> ErrForbidden])
  /\ DOMAIN store # {}
  /\ PendingKeys(del) = {}

\* ------------------------------------------------- claims: store failures

\* C13: a failed store call of a listing answers 200 with no events and an
\* error text, one of a namespace discovery answers 200 with no keys and an
\* error text; a failed delete call answers 500 without ok, and nothing that
\* settles later answers in its place; an ingestion answers 200 only when its
\* record is stored.
C13_ReadsDegradeWritesFail ==
  [][/\ (lst' # lst /\ lst'.phase = "failed") =>
           /\ resp'.op = "list" /\ resp'.status = 200
           /\ resp'.json.events = << >> /\ "error" \in DOMAIN resp'.json
     /\ (scan' # scan /\ scan'.phase = "failed") =>
           /\ resp'.op = "keys" /\ resp'.status = 200
           /\ resp'.json.keys = << >> /\ "error" \in DOMAIN resp'.json
     /\ (del'.rejected /\ ~del.rejected) =>
           /\ resp'.op = "delete" /\ resp'.status = 500
           /\ "ok" \notin DOMAIN resp'.json /\ "error" \in DOMAIN resp'.json
     /\ (del.rejected /\ del'.rejected /\ del' # del) => resp' = resp
     /\ (UNCHANGED << lst, del, scan >> /\ resp'.op = "webhook" /\ resp'.status = 200) =>
           \E k \in DOMAIN store' : store'[k].value.id = resp'.json.id]_vars

\* Each of the four operations has met a failing store call, the ingestion
\* last.
C13_Witness ==
  /\ lst.phase = "failed" /\ scan.phase = "failed" /\ del.rejected
  /\ store # << >>
  /\ resp = Response("webhook", 500, [error |-> ErrStore])

\* ---------------------------------------------------- claims: retention

SecondsPerDay == 24 * 60 * 60

\* C22: every record is put with a TTL equal to the retention configured, in
\* seconds, and a positive whole number, and with none when the setting is
\* not a number or not positive.
C22_TtlIsRetentionWindow ==
  \A k \in DOMAIN store, c \in RetentionCases :
     c.raw = env.RETENTION_DAYS =>
        LET ttl == store[k].expirationTtl
        IN IF c.days = None \/ c.days[1].num <= 0
           THEN ttl = None
           ELSE /\ ttl # None
                /\ ttl[1] * c.days[1].den = c.days[1].num * SecondsPerDay
                /\ ttl[1] > 0

\* ---------------------------------------------------- claims: key codec

\* The parts of a key name before and after its first ":".
BeforeColon(k) == SubSeq(k, 1, IndexOf(k, ":", 1) - 1)
AfterColon(k) == SubSeq(k, IndexOf(k, ":", 1) + 1, Len(k))

\* C23: the first ":" of every key written by an ingestion stands between
\* the namespace the event was ingested under and its id.
C23_FirstColonSeparatesNamespaceFromId ==
  \A k \in DOMAIN store :
     /\ IndexOf(k, ":", 1) # 0
     /\ BeforeColon(k) = store[k].value.apiKey
     /\ AfterColon(k) = store[k].value.id

\* ------------------------------------------------------- claims: limits

\* C21: whatever limit is asked for, the limit of the list operation is in
\* 1..200, and 50 when none is asked for, and the limit handed to the
\* store's list call is in 1..1000.
C21_LimitsAreClamped ==
  [][\A request \in LimitRequests :
       (lst' # lst /\ ListStart(request)) =>
          /\ lst'.limit \in 1..200
          /\ request.limit = None => lst'.limit = 50
          /\ request.number # None /\ request.number[1] \in 1..200 =>
                lst'.limit = request.number[1]
          /\ lst'.listLimit \in 1..1000
          /\ Len(lst'.page.keys) <= lst'.limit]_vars

\* A listing with the largest limit has listed the three events of "d".
C21_Witness ==
  /\ lst.phase = "hydrating"
  /\ lst.limit = MaxLimit /\ lst.listLimit = MaxLimit
  /\ Len(lst.page.keys) = 3

\* --------------------------------------------------- claims: pagination

\* The key name after which the walk resumes: that of the cursor of the page
\* last answered, none at the start of a walk.
WalkPosition == IF Unfinished(resp) THEN Tail(resp.json.cursor) ELSE << >>

\* The keys of the events stored under ns that list after the key name
\* after, in ascending order.
NamespaceKeysAfter(ns, after) ==
  SortedKeys({ k \in DOMAIN store :
                 store[k].value.apiKey = ns /\ (after = << >> \/ LexLess(after, k)) })

EventKeys(events) == [i \in DOMAIN events |-> makeStorageKey(events[i].apiKey, events[i].id)]

\* The events of the answer are the next of the namespace after the position
\* of the walk, in ascending key order; listComplete tells that none is left,
\* and else the cursor stands after the last event returned.
NextEventsReturned(answer, ns) ==
  LET rest == NamespaceKeysAfter(ns, WalkPosition)
      n == Len(answer.json.events)
  IN /\ n <= Len(rest)
     /\ EventKeys(answer.json.events) = SubSeq(rest, 1, n)
     /\ answer.json.listComplete = (n = Len(rest))
     /\ n < Len(rest) =>
          /\ "cursor" \in DOMAIN answer.json
          /\ NamespaceKeysAfter(ns, Tail(answer.json.cursor)) = SubSeq(rest, n + 1, Len(rest))

RECURSIVE KeysWithValue(_, _, _)
\* The keys of the page, from position i on, whose get gave a value.
KeysWithValue(keys, results, i) ==
  IF i > Len(keys) THEN << >>
  ELSE (IF results[i].value = None THEN << >> ELSE << keys[i] >>)
       \o KeysWithValue(keys, results, i + 1)

\* C24: a get of a listed key that is no longer stored gives no value and
\* does not fail the request; the page answered holds the events of the
\* other keys, and its cursor and listComplete are those of the store's
\* list call.
C24_VanishedKeysAreOmitted ==
  [][(lst.phase = "hydrating" /\ lst' # lst /\ lst'.phase # "failed") =>
        /\ \A i \in DOMAIN lst.results :
              lst'.results[i] # lst.results[i] =>
                 (lst'.results[i].value = None) = (lst.page.keys[i] \notin DOMAIN store)
        /\ lst'.phase = "done" =>
              /\ resp'.op = "list" /\ resp'.status = 200
              /\ "error" \notin DOMAIN resp'.json
              /\ EventKeys(resp'.json.events) = KeysWithValue(lst.page.keys, lst'.results, 1)
              /\ resp'.json.listComplete = lst.page.list_complete
              /\ ("cursor" \in DOMAIN resp'.json) = (lst.page.list_complete = FALSE)
              /\ "cursor" \in DOMAIN resp'.json => resp'.json.cursor = lst.page.cursor]_vars

\* A page of one key, listed as incomplete, has been answered with no event:
\* the key was deleted before its get.
C24_Witness ==
  /\ lst.phase = "done"
  /\ Len(lst.page.keys) = 1 /\ lst.page.keys[1] \notin DOMAIN store
  /\ lst.page.list_complete = FALSE
  /\ resp.op = "list" /\ resp.status = 200
  /\ resp.json.events = << >> /\ resp.json.listComplete = FALSE
  /\ "cursor" \in DOMAIN resp.json

\* The tick of the clock at which the event was ingested.
TickOf(event) == CHOOSE t \in 0..(Len(TickChars) - 1) : ToISOString(t) = event.receivedAt

\* C25: the events of a page are in the ascending order of their storage
\* keys, in whatever order the gets settle, and an event ingested at an
\* earlier tick comes before one of the same namespace ingested at a later
\* tick.
C25_EventsInKeyAndIngestionOrder ==
  [][(lst.phase = "hydrating" /\ lst'.phase = "done") =>
        LET events == resp'.json.events
        IN /\ EventKeys(events) = KeysWithValue(lst.page.keys, lst'.results, 1)
           /\ \A i, j \in DOMAIN events :
                 i < j => /\ LexLess(EventKeys(events)[i], EventKeys(events)[j])
                          /\ TickOf(events[i]) <= TickOf(events[j])]_vars

\* A page has been answered with two events ingested at different ticks.
C25_Witness ==
  /\ lst.phase = "done" /\ resp.op = "list"
  /\ Len(resp.json.events) = 2
  /\ TickOf(resp.json.events[1]) < TickOf(resp.json.events[2])

\* C26: every event of a page answered to a list request for a namespace
\* was ingested under that namespace.
C26_ListedEventsAreOfTheNamespace ==
  [][(lst' # lst /\ lst'.phase = "done") =>
        \A i \in DOMAIN resp'.json.events : resp'.json.events[i].apiKey = lst'.apiKey]_vars

\* C27: the delete calls of a batch delete for a namespace leave every
\* record ingested under another namespace as it is.
C27_DeleteLeavesOtherNamespaces ==
  [][(del' # del /\ PendingKeys(del) # {}) =>
        \A k \in DOMAIN store :
           store[k].value.apiKey # del.apiKey =>
              k \in DOMAIN store' /\ store'[k] = store[k]]_vars

\* --------------------------------------------------- claims: the store

\* C28: every key of the store holds a record whose namespace and id make up
\* the key, and the record a key holds is never replaced by another while
\* the key stays in the store.
C28_RecordsAreKeyedAndImmutable ==
  [][/\ \A k \in DOMAIN store' :
           k = makeStorageKey(store'[k].value.apiKey, store'[k].value.id)
     /\ \A k \in DOMAIN store \cap DOMAIN store' : store'[k] = store[k]]_vars

\* C29: no step of a listing or of a namespace discovery, failed ones
\* included, changes the store.
C29_ReadsLeaveTheStore ==
  [][(lst' # lst \/ scan' # scan) => store' = store]_vars

\* A listing has failed and a discovery has been answered over a store that
\* still holds two events.
C29_Witness ==
  /\ lst.phase = "failed" /\ scan.phase = "done" /\ scan.scanned = 2
  /\ resp.op = "keys"
  /\ Cardinality(DOMAIN store) = 2

\* ---------------------------------------------- claims: namespace discovery

\* The discovery last started has been answered from the store as it is.
ScanAnswered == scan.phase = "done" /\ resp.op = "keys"

\* The events of the store (those under "z" apart) are all under NO-KEY.
OnlyNoKeyStored == \A k \in DOMAIN store : store[k].value.apiKey = NO_KEY

\* C14: no answer of a namespace discovery lists NO-KEY, and over a store
\* that holds events under NO-KEY only the answer lists no namespace.
C14_DiscoveryNeverReturnsNoKey ==
  /\ resp.op = "keys" => \A i \in DOMAIN resp.json.keys : resp.json.keys[i] # NO_KEY
  /\ (ScanAnswered /\ bulk = 0 /\ OnlyNoKeyStored) => resp.json.keys = << >>

\* A discovery over two events under NO-KEY has answered no namespace.
C14_Witness ==
  /\ ScanAnswered /\ bulk = 0 /\ OnlyNoKeyStored
  /\ Cardinality(DOMAIN store) = 2
  /\ scan.scanned = 2
  /\ resp = Response("keys", 200, [keys |-> << >>])

\* The namespaces the events of the store (those under "z" apart) were
\* ingested under.
StoredNamespaces == { store[k].value.apiKey : k \in DOMAIN store } \ { NO_KEY }

\* C15: a namespace discovery answered over a store of at most 2000 keys
\* lists every namespace other than NO-KEY under which a stored event was
\* ingested.
C15_IngestedNamespaceIsDiscovered ==
  (ScanAnswered /\ Cardinality(DOMAIN store) + bulk <= MaxScan) =>
     StoredNamespaces \subseteq Range(resp.json.keys)

\* C16: a namespace discovery examines at most 2000 keys, whatever the sizes
\* of the pages.
C16_ExaminesAtMostScanCap == scan.scanned <= MaxScan

\* C17: a namespace discovery that has started is answered, whatever pages
\* the store returns.
C17_DiscoveryTerminates == (scan.phase = "running") ~> (scan.phase # "running")

\* C30: every namespace a discovery answers is one under which an event of
\* the store was ingested.
C30_DiscoveredNamespacesAreStored ==
  ScanAnswered =>
     Range(resp.json.keys) \subseteq StoredNamespaces \cup (IF bulk > 0 THEN { BulkNs } ELSE {})

\* -------------------------------------------- claims: namespace defaulting

\* The namespace value is absent, empty or only blanks.
IsBlank(maybe) == maybe = None \/ \A i \in DOMAIN maybe[1] : maybe[1][i] = " "

\* The ingest request supplies no namespace: each of its three sources is
\* absent, empty or blank.
SuppliesNoNamespace(src) == IsBlank(src.key) /\ IsBlank(src.api_key) /\ IsBlank(src.x_api_key)

\* C19: a request that supplies no namespace, or an empty or blank one, acts
\* on NO-KEY: the ingest is stored under "NO-KEY:<id>", the list call asks
\* for the prefix of NO-KEY, the delete calls are for keys of NO-KEY.
C19_BlankNamespaceIsNoKey ==
  [][/\ \A request \in GateWebhookRequests :
          (store' # store /\ SuppliesNoNamespace(request.src) /\ handleWebhook(request)) =>
             /\ resp'.status = 200
             /\ << "N", "O", "-", "K", "E", "Y", ":" >> \o resp'.json.id \in DOMAIN store' \ DOMAIN store
     /\ \A request \in GateListRequests :
          (lst' # lst /\ ListStart(request)
           /\ IsBlank(request.keyParam) /\ (request.keyParam = None => SuppliesNoNamespace(request.src))) =>
             /\ lst'.apiKey = << "N", "O", "-", "K", "E", "Y" >>
             /\ \A i \in DOMAIN lst'.page.keys :
                  StartsWith(lst'.page.keys[i], << "N", "O", "-", "K", "E", "Y", ":" >>)
     /\ \A request \in GateDeleteRequests :
          (del' # del /\ IsBlank(request.payload.key) /\ DeleteStart(request)) =>
             /\ del'.apiKey = << "N", "O", "-", "K", "E", "Y" >>
             /\ \A k \in DOMAIN del'.outcome :
                  StartsWith(k, << "N", "O", "-", "K", "E", "Y", ":" >>)]_vars

\* The events of NO-KEY and of "d" are stored, and a list request has had
\* the key of a NO-KEY event listed.
C19_Witness ==
  /\ lst.apiKey = NO_KEY /\ lst.page.keys # << >>
  /\ \E k \in DOMAIN store : store[k].value.apiKey = NO_KEY
  /\ \E k \in DOMAIN store : store[k].value.apiKey = NsD

====
